---- MODULE Spec2Model ----
(***************************************************************************)
(* reduct-cli: the export (bucket -> local folder) and mirror (bucket ->   *)
(* bucket) transfer commands.                                              *)
(*                                                                         *)
(* export is modelled from src/reduct_cli/export.py.  The helpers it calls *)
(* (reduct_cli/utils/helpers.py, reduct_cli/utils/error.py) and the mirror *)
(* command (reduct_cli/mirror.py) are not in the source tree; they are    *)
(* modelled from the specification and from what the tests show.           *)
(*                                                                         *)
(* One behaviour of the model is one invocation of the command line: Init  *)
(* picks the command line and what the remote bucket holds, the actions    *)
(* are the steps of the command handler and of the asyncio tasks it        *)
(* starts.  A timestamp (an int64 number of microseconds) is kept as the   *)
(* pair [sec, usec] with usec in 0..999999, standing for                   *)
(* sec * 1000000 + usec, because TLC's integers are 32 bits wide.          *)
(***************************************************************************)
EXTENDS Integers, Sequences, FiniteSets, TLC

\* ------------------------------------------------------------------ bounds
\* How many entries the source bucket may hold.
MaxEntries == 2
\* How many records the longest entry of the source bucket holds.
MaxRecords == 2

\* ------------------------------------------------------------ source data
AllNames == <<"entry-1", "entry-2", "entry-3", "entry-4">>

EntryNames == {AllNames[k] : k \in 1..MaxEntries}

\* Position of a name in the ascending order of names.
NameRank(n) == CHOOSE k \in 1..Len(AllNames) : AllNames[k] = n

None == <<>>

Some(x) == <<x>>

Ts(sec, usec) == [sec |-> sec, usec |-> usec]

\* Number of records the query of entry number k yields.
NumRecords(k) == IF k = 1 THEN MaxRecords ELSE 1

\* Record j of entry number k, as the remote service yields it: odd records
\* are PNG images "Hey" read in two chunks, even records are "Bye" with no
\* content type read in one chunk (the fixtures of the tests).
RecordOf(k, j) ==
    [timestamp    |-> Ts(1000 + 4000 * (j - 1) + 100 * (k - 1), 0),
     size         |-> 3,
     content_type |-> IF j % 2 = 1 THEN "image/png" ELSE "",
     chunks       |-> IF j % 2 = 1 THEN << <<"H", "e">>, <<"y">> >>
                                   ELSE << <<"B", "y", "e">> >>]

\* What bucket.query(name, ...) yields, in the order the service returns it.
SrcRecords(name) ==
    [j \in 1..NumRecords(NameRank(name)) |-> RecordOf(NameRank(name), j)]

\* EntryInfo of an entry, as bucket.get_entry_list() returns it.
EntryInfo(name) ==
    [name          |-> name,
     oldest_record |-> SrcRecords(name)[1].timestamp,
     latest_record |-> SrcRecords(name)[Len(SrcRecords(name))].timestamp]

RECURSIVE Flatten(_)
Flatten(chunks) ==
    IF chunks = <<>> THEN <<>> ELSE Head(chunks) \o Flatten(Tail(chunks))

\* --------------------------------------------------------- command line
\* An ISO-8601 argument: a malformed string (ok = FALSE), or a wall-clock
\* date and time with a UTC offset in minutes ("Z" is offset 0).
Iso(y, mo, d, h, mi, s, us, off) ==
    [ok |-> TRUE, y |-> y, mo |-> mo, d |-> d, h |-> h, mi |-> mi, s |-> s,
     us |-> us, off |-> off]

Malformed == [Iso(0, 0, 0, 0, 0, 0, 0, 0) EXCEPT !.ok = FALSE]

\* --start 2022-01-02T00:00:01.100300+02:00 and the same wall clock with Z,
\* --stop 2022-02-01T00:00:00+02:00.
StartArgs == {None, Some(Iso(2022, 1, 2, 0, 0, 1, 100300, 120)),
              Some(Iso(2022, 1, 2, 0, 0, 1, 100300, 0)), Some(Malformed)}

StopArgs == {None, Some(Iso(2022, 2, 1, 0, 0, 0, 0, 120)),
             Some(Iso(2022, 2, 1, 0, 0, 0, 0, -90))}

\* --entries=entry-2 ; --entries=entry-2,entry-1 ; --entries=entry-9
EntriesArgs == {None, Some(<<"entry-2">>), Some(<<"entry-2", "entry-1">>),
                Some(<<"entry-9">>)}

ExtArgs == {None, Some("txt")}

DestArgs == {None, Some("reduct_export")}

\* The directories that may be there before an export: none, the bucket's
\* folder, the bucket's folder and the folder of entry-1.
ExistingDirs == {{}, {<<"src_bucket">>}, {<<"src_bucket">>, <<"src_bucket", "entry-1">>}}

\* The destination bucket before a mirror: absent, or there with its own
\* settings.
\* A file an earlier export has left in the directory of entry-1, under the
\* name of the entry's first record, with bytes of its own.
StaleFiles ==
    [dir |-> <<"src_bucket", "entry-1">>, timestamp |-> Ts(1000, 0), ext |-> "bin"]
        :> <<"o", "l", "d", "!">>

ExistingBuckets == {None, Some("dest_settings")}

\* The alias store of the tests' set_alias fixture.
TestAliases == [n \in {"test"} |-> [url |-> "http://127.0.0.1:8383", token |-> "token"]]

\* The names, urls and tokens the alias commands are given.
AliasNames == {"storage", "backup"}

AliasEntries == [url : {"http://127.0.0.1:8383", "http://reduct:8383"},
                 token : {"token", ""}]

\* The store of a configuration file that is not there yet.
EmptyStore == [n \in {} |-> [url |-> "", token |-> ""]]

NoOp == [op |-> "none", name |-> "", ok |-> TRUE, entry |-> None]

\* No alias command has run: last and prev are the last two add/rm commands,
\* before and before2 the store as it was before each of them, listed what
\* "alias list" has printed since, out and exit_code the last command's.
NewSession(store) ==
    [prev |-> NoOp, last |-> NoOp, before |-> store, before2 |-> store,
     listed |-> None, out |-> <<>>, exit_code |-> -1]

RECURSIVE Perms(_)
Perms(S) ==
    IF S = {} THEN {<<>>}
    ELSE UNION {{<<x>> \o p : p \in Perms(S \ {x})} : x \in S}

\* The entry lists get_entry_list() may return: any subset in any order.
EntryLists == UNION {Perms(S) : S \in SUBSET EntryNames}

VARIABLES
    cmd,        \* "export" or "mirror"
    argv,       \* the command line: [bucket, dest, start, stop, entries, ext]
    entryList,  \* names of the source bucket's entries, in the service's order
    pc,         \* position of the command handler
    exit_code,  \* -1 while running
    output,     \* lines printed, each [kind, msg]
    dirs,       \* directories that exist, each a sequence of path components
    files,      \* path of a file -> its bytes
    queryLog,   \* calls of bucket.query, in order
    createLog,  \* calls of client.create_bucket, in order
    writeLog,   \* entry name -> calls of dest_bucket.write for it, in order
    task,       \* the entry pipelines, one per element of entryList
    gathered,   \* the exception asyncio.gather has taken from a pipeline
    lookup,     \* outcome of client.get_bucket: "pending", "ok" or "failed"
    existing,   \* what was there before the command: [dirs, bucket, files]
    destBucket, \* settings of the destination bucket on the remote, or None
    aliases,    \* the alias store: alias name -> [url, token]
    session     \* the alias commands run so far: [prev, last, before, ...]

vars == <<cmd, argv, entryList, pc, exit_code, output, dirs, files, queryLog,
          createLog, writeLog, task, gathered, lookup, existing, destBucket,
          aliases, session>>

Init ==
    /\ cmd \in {"export", "mirror"}
    /\ argv \in [bucket : {"src_bucket"}, dest : DestArgs, start : StartArgs,
                 stop : StopArgs, entries : EntriesArgs, ext : ExtArgs]
    /\ cmd = "mirror" => argv.dest # None /\ argv.entries = None /\ argv.ext = None
    /\ entryList \in EntryLists
    /\ existing \in [dirs : ExistingDirs, bucket : ExistingBuckets,
                      files : {<<>>, StaleFiles}]
    /\ \A f \in DOMAIN existing.files : f.dir \in existing.dirs
    \* What is there before the command does not depend on the options: a
    \* destination that is there is tried with the plain command line.
    /\ existing.dirs # {}
         => /\ argv.dest = None /\ argv.entries = None /\ argv.ext = None
            /\ argv.start = None /\ argv.stop = None
    /\ existing.bucket # None => argv.start = None /\ argv.stop = None
    /\ cmd = "export" => existing.bucket = None
    /\ cmd = "mirror" => existing.dirs = {}
    /\ destBucket = existing.bucket
    /\ aliases = TestAliases
    /\ session = NewSession(TestAliases)
    /\ pc = "cli"
    /\ exit_code = -1
    /\ output = <<>>
    /\ dirs = existing.dirs
    /\ files = existing.files
    /\ queryLog = <<>>
    /\ createLog = <<>>
    /\ writeLog = [n \in EntryNames |-> <<>>]
    /\ task = <<>>
    /\ gathered = None
    /\ lookup = "pending"

\* ----------------------------------------------------- time parsing
\* Days from 1970-01-01 to the civil date y-mo-d (proleptic Gregorian).
DaysFromCivil(y, mo, d) ==
    LET yy  == IF mo <= 2 THEN y - 1 ELSE y
        era == yy \div 400
        yoe == yy - era * 400
        mp  == IF mo > 2 THEN mo - 3 ELSE mo + 9
        doy == (153 * mp + 2) \div 5 + d - 1
        doe == yoe * 365 + yoe \div 4 - yoe \div 100 + doy
    IN  era * 146097 + doe - 719468

\* A well-formed ISO-8601 argument as UTC microseconds since the epoch: the
\* wall clock is local to the offset, so the offset is taken away.
ToTimestamp(iso) ==
    Ts(DaysFromCivil(iso.y, iso.mo, iso.d) * 86400
         + iso.h * 3600 + iso.mi * 60 + iso.s - iso.off * 60,
       iso.us)

ParseError == [kind |-> "ValueError", msg |-> "Failed to parse"]

RemoteError == [kind |-> "RuntimeError", msg |-> "Oops"]

UsageError == [kind |-> "Usage", msg |-> "Error: no such option or argument"]

Aborted == [kind |-> "", msg |-> "Aborted!"]

FileExistsError == [kind |-> "FileExistsError", msg |-> "File exists"]

ConflictError == [kind |-> "ReductError", msg |-> "Bucket already exists"]

\* ------------------------------------------------------- error handling
\* error_handle(): an exception leaving the command body is printed as
\* "[<kind>] <message>", then "Aborted!", and the process exits with 1.
error_handle(err) ==
    /\ output' = output \o <<err, Aborted>>
    /\ exit_code' = 1
    /\ pc' = "exit"

\* The command body returned normally.
Completed ==
    /\ exit_code' = 0
    /\ pc' = "exit"
    /\ UNCHANGED output

\* ------------------------------------------- read_records_with_progress
\* The bounds of the query of one entry: a bound of the command line, parsed,
\* or else the entry's own oldest / latest record.
Interval(entry, kwargs) ==
    [start |-> IF kwargs.start = None THEN Some(entry.oldest_record)
               ELSE Some(ToTimestamp(kwargs.start[1])),
     stop  |-> IF kwargs.stop = None THEN Some(entry.latest_record)
               ELSE Some(ToTimestamp(kwargs.stop[1]))]

BadBound(kwargs) ==
    \/ kwargs.start # None /\ ~kwargs.start[1].ok
    \/ kwargs.stop # None /\ ~kwargs.stop[1].ok

\* The call bucket.query(entry.name, start=..., stop=...).
QueryCall(entry, kwargs) ==
    [name  |-> entry.name,
     start |-> Interval(entry, kwargs).start,
     stop  |-> Interval(entry, kwargs).stop]

NewTask(name) ==
    [entry |-> EntryInfo(name), pc |-> "new", rec |-> 0, chunk |-> 0,
     error |-> None, accepted |-> 0, records_copied |-> 0, bytes_copied |-> 0]

\* The pipeline of task i raised err: the task is done with an exception, and
\* gather() keeps the first exception any of its tasks raised.
Fail(i, err) ==
    /\ task' = [task EXCEPT ![i].pc = "failed", ![i].error = Some(err)]
    /\ gathered' = IF gathered = None THEN Some(err) ELSE gathered

\* The error a mirror pipeline surfaces: the record's error with the name of
\* the entry attached.
EntryError(entry, err) ==
    [kind |-> err.kind, msg |-> err.msg, entry |-> entry.name]

\* asyncio starts the tasks of gather() in the order of its arguments.
Startable(i) ==
    /\ i \in DOMAIN task
    /\ task[i].pc = "new"
    /\ \A j \in 1..(i - 1) : task[j].pc # "new"

\* The first step of every task runs before any task is resumed: the tasks
\* are all ready when gather() suspends, and results of I/O are taken up only
\* after the ready tasks have run.
AllStarted == \A j \in DOMAIN task : task[j].pc # "new"

CurrentRecord(i) == SrcRecords(task[i].entry.name)[task[i].rec]

\* The sink has taken a record of the pipeline whole: its file is closed, or
\* its write has returned.
Accepted(t) == [t EXCEPT !.accepted = @ + 1]

\* Mutant: the progress counts chunks, not bytes.
AccountedChunks(t, record) ==
    [t EXCEPT !.pc = "next",
              !.records_copied = @ + 1,
              !.bytes_copied = @ + Len(record.chunks)]

\* After the record of task i was consumed, the generator resumes and
\* accounts it in the progress of its entry.
Accounted(t, record) ==
    [t EXCEPT !.pc = "next",
              !.records_copied = @ + 1,
              !.bytes_copied = @ + record.size]

\* Mutant: the progress keeps one pair of counters for all entries.
ProgressUpdateShared(tasks, i, record) ==
    [b \in DOMAIN tasks |->
        IF b = i THEN Accounted(Accepted(tasks[b]), record)
        ELSE [tasks[b] EXCEPT !.records_copied = @ + 1,
                              !.bytes_copied = @ + record.size]]

\* The update of the shared progress for the record pipeline i has moved:
\* the counters of the entry of pipeline i advance, no others.
ProgressUpdate(tasks, i, record) ==
    [tasks EXCEPT ![i] = Accounted(Accepted(@), record)]

\* ------------------------------------------------------- export folder
\* The parameters click declares for "export folder".
FolderParams == {"path", "start", "stop"}

\* The parameters a command line gives.
Given(a) ==
    {"path"}
      \cup (IF a.dest = None THEN {} ELSE {"dest"})
      \cup (IF a.start = None THEN {} ELSE {"start"})
      \cup (IF a.stop = None THEN {} ELSE {"stop"})
      \cup (IF a.entries = None THEN {} ELSE {"entries"})
      \cup (IF a.ext = None THEN {} ELSE {"ext"})

\* Mutant: the options are not handed on.
FolderKwargsDropped(a) == [start |-> None, stop |-> None]

\* Mutant: the options are handed on under each other's name.
FolderKwargsSwapped(a) == [start |-> a.stop, stop |-> a.start]

\* The keyword arguments folder() hands to _export_bucket().
FolderKwargs(a) == [start |-> a.start, stop |-> a.stop]

\* folder(): click rejects a command line with a parameter the command does
\* not declare (exit code 2); otherwise the body runs _export_bucket().
folder ==
    /\ pc = "cli"
    /\ cmd = "export"
    /\ IF Given(argv) \subseteq FolderParams
         THEN /\ pc' = "get_bucket"
              /\ UNCHANGED <<exit_code, output>>
         ELSE /\ pc' = "exit"
              /\ exit_code' = 2
              /\ output' = <<UsageError>>
    /\ UNCHANGED <<cmd, argv, entryList, dirs, files, queryLog, createLog,
                   writeLog, task, gathered, lookup,
                   existing, destBucket, aliases, session>>

\* folder_path = Path(bucket_name)
FolderPath(a) == <<a.bucket>>

\* Mutant: the folder is made before the bucket is looked up.
export_bucket_lookup_after_mkdir ==
    /\ pc = "get_bucket"
    /\ cmd = "export"
    /\ dirs' = dirs \cup {FolderPath(argv)}
    /\ \/ lookup' = "ok" /\ pc' = "mkdir" /\ UNCHANGED <<exit_code, output>>
       \/ lookup' = "failed" /\ error_handle(RemoteError)
    /\ UNCHANGED <<cmd, argv, entryList, files, queryLog, createLog,
                   writeLog, task, gathered,
                   existing, destBucket, aliases, session>>

\* _export_bucket(): bucket = await client.get_bucket(bucket_name)
export_bucket_lookup ==
    /\ pc = "get_bucket"
    /\ cmd = "export"
    /\ \/ lookup' = "ok" /\ pc' = "mkdir" /\ UNCHANGED <<exit_code, output>>
       \/ lookup' = "failed" /\ error_handle(RemoteError)
    /\ UNCHANGED <<cmd, argv, entryList, dirs, files, queryLog, createLog,
                   writeLog, task, gathered,
                   existing, destBucket, aliases, session>>

\* Mutant: mkdir without exist_ok.
MkdirStrict(d, path) == [ok |-> path \notin d, dirs |-> d \cup {path}]

\* path.mkdir(exist_ok=True) on the directories d: the directory is there
\* afterwards, and it is no error if it was there before.
Mkdir(d, path) == [ok |-> TRUE, dirs |-> d \cup {path}]

\* folder_path.mkdir(exist_ok=True)
export_bucket_mkdir ==
    /\ pc = "mkdir"
    /\ cmd = "export"
    /\ IF Mkdir(dirs, FolderPath(argv)).ok
         THEN /\ dirs' = Mkdir(dirs, FolderPath(argv)).dirs
              /\ pc' = "get_entry_list"
              /\ UNCHANGED <<exit_code, output>>
         ELSE /\ error_handle(FileExistsError)
              /\ UNCHANGED dirs
    /\ UNCHANGED <<cmd, argv, entryList, files, queryLog,
                   createLog, writeLog, task, gathered, lookup,
                   existing, destBucket, aliases, session>>

\* The entries _export_bucket() makes a pipeline for: every entry of
\* get_entry_list(), in the order of the list.
ExportEntries(list, a) == list

\* tasks = [_export_entry(folder_path, entry, ...) for entry in ...]
export_bucket_spawn ==
    /\ pc = "get_entry_list"
    /\ cmd = "export"
    /\ task' = [i \in 1..Len(ExportEntries(entryList, argv)) |->
                  NewTask(ExportEntries(entryList, argv)[i])]
    /\ pc' = "gather"
    /\ UNCHANGED <<cmd, argv, entryList, exit_code, output, dirs, files,
                   queryLog, createLog, writeLog, gathered, lookup,
                   existing, destBucket, aliases, session>>

\* Mutant: every entry is exported into the bucket's folder itself.
EntryPathShared(a, entry) == FolderPath(a)

\* entry_path = Path(path / entry.name)
EntryPath(a, entry) == FolderPath(a) \o <<entry.name>>

\* entry_path / f"{record.timestamp}.bin"
RecordFile(a, entry, record) ==
    [dir |-> EntryPath(a, entry), timestamp |-> record.timestamp, ext |-> "bin"]

\* Mutant: a chunk is put in front of what the file holds.
WriteChunkAtStart(content, chunk) == chunk \o content

\* f.write(chunk) on a file opened "wb": the chunk goes to the end.
WriteChunk(content, chunk) == content \o chunk

\* open(path, "wb"): the file is there and empty, whatever it held.
OpenWb(fs, file) == (file :> <<>>) @@ fs

\* Mutant: the file of a record whose read failed is removed.
ReadFailedUnlink(fs, file) == [f \in DOMAIN fs \ {file} |-> fs[f]]

\* The read of a record raises inside "with open(...) as f": the file is
\* closed, and nothing else is done to it.
ReadFailed(fs, file) == fs

\* _export_entry() up to its first suspension: the entry's directory is
\* made, then read_records_with_progress() parses the bounds and calls
\* bucket.query().
export_entry_start(i) ==
    /\ pc = "gather"
    /\ cmd = "export"
    /\ Startable(i)
    /\ IF ~Mkdir(dirs, EntryPath(argv, task[i].entry)).ok
         THEN Fail(i, FileExistsError) /\ UNCHANGED <<dirs, queryLog>>
         ELSE /\ dirs' = Mkdir(dirs, EntryPath(argv, task[i].entry)).dirs
              /\ IF BadBound(FolderKwargs(argv))
                   THEN Fail(i, ParseError) /\ UNCHANGED queryLog
                   ELSE /\ queryLog' = Append(queryLog,
                                 QueryCall(task[i].entry, FolderKwargs(argv)))
                        /\ task' = [task EXCEPT ![i].pc = "next"]
                        /\ UNCHANGED gathered
    /\ UNCHANGED <<cmd, argv, entryList, pc, exit_code, output, files,
                   createLog, writeLog, lookup,
                   existing, destBucket, aliases, session>>

\* async for record in read_records_with_progress(...): the next record
\* arrives and its file is opened for writing, or the stream has ended, or
\* the remote fails.
export_entry_next(i) ==
    /\ pc = "gather"
    /\ AllStarted
    /\ cmd = "export"
    /\ i \in DOMAIN task
    /\ task[i].pc = "next"
    /\ \/ /\ task[i].rec < Len(SrcRecords(task[i].entry.name))
          /\ task' = [task EXCEPT ![i].pc = "read", ![i].rec = @ + 1, ![i].chunk = 0]
          /\ files' = OpenWb(files, RecordFile(argv, task[i].entry,
                                 SrcRecords(task[i].entry.name)[task[i].rec + 1]))
          /\ UNCHANGED gathered
       \/ /\ task[i].rec = Len(SrcRecords(task[i].entry.name))
          /\ task' = [task EXCEPT ![i].pc = "done"]
          /\ UNCHANGED <<files, gathered>>
       \/ /\ task[i].rec < Len(SrcRecords(task[i].entry.name))
          /\ Fail(i, RemoteError)
          /\ UNCHANGED files
    /\ UNCHANGED <<cmd, argv, entryList, pc, exit_code, output, dirs, queryLog,
                   createLog, writeLog, lookup,
                   existing, destBucket, aliases, session>>

\* async for chunk in record.read(n=1024): f.write(chunk); at the end of the
\* chunks the file is closed and the record is accounted.
export_entry_chunk(i) ==
    /\ pc = "gather"
    /\ AllStarted
    /\ cmd = "export"
    /\ i \in DOMAIN task
    /\ task[i].pc = "read"
    /\ LET record == CurrentRecord(i)
           file   == RecordFile(argv, task[i].entry, record)
       IN  \/ /\ task[i].chunk < Len(record.chunks)
              /\ files' = [files EXCEPT ![file] =
                               WriteChunk(@, record.chunks[task[i].chunk + 1])]
              /\ task' = [task EXCEPT ![i].chunk = @ + 1]
              /\ UNCHANGED gathered
           \/ /\ task[i].chunk = Len(record.chunks)
              /\ task' = ProgressUpdate(task, i, record)
              /\ UNCHANGED <<files, gathered>>
           \/ /\ task[i].chunk < Len(record.chunks)
              /\ Fail(i, RemoteError)
              /\ files' = ReadFailed(files, file)
    /\ UNCHANGED <<cmd, argv, entryList, pc, exit_code, output, dirs, queryLog,
                   createLog, writeLog, lookup,
                   existing, destBucket, aliases, session>>

\* Mutant: gather() only ever returns when every pipeline is done.
export_bucket_gather_all_done ==
    /\ pc = "gather"
    /\ AllStarted
    /\ cmd = "export"
    /\ \A i \in DOMAIN task : task[i].pc = "done"
    /\ Completed
    /\ UNCHANGED <<cmd, argv, entryList, dirs, files, queryLog, createLog,
                   writeLog, task, gathered, lookup,
                   existing, destBucket, aliases, session>>

\* await asyncio.gather(*tasks), under run = loop().run_until_complete:
\* gather() raises the first exception of a pipeline as soon as it has one,
\* _export_bucket() ends with it and the event loop stops, whatever the other
\* pipelines are doing; with no exception it returns when all are done.
export_bucket_gather ==
    /\ pc = "gather"
    /\ AllStarted
    /\ cmd = "export"
    /\ \/ gathered # None /\ error_handle(gathered[1])
       \/ /\ gathered = None
          /\ \A i \in DOMAIN task : task[i].pc = "done"
          /\ Completed
    /\ UNCHANGED <<cmd, argv, entryList, dirs, files, queryLog, createLog,
                   writeLog, task, gathered, lookup,
                   existing, destBucket, aliases, session>>

\* --------------------------------------------------------------- mirror
\* mirror(): the bounds are parsed before anything else is done.
mirror ==
    /\ pc = "cli"
    /\ cmd = "mirror"
    /\ IF BadBound(FolderKwargs(argv))
         THEN error_handle(ParseError)
         ELSE pc' = "get_bucket" /\ UNCHANGED <<exit_code, output>>
    /\ UNCHANGED <<cmd, argv, entryList, dirs, files, queryLog, createLog,
                   writeLog, task, gathered, lookup,
                   existing, destBucket, aliases, session>>

\* src_bucket = await client.get_bucket(src_name)
mirror_bucket_lookup ==
    /\ pc = "get_bucket"
    /\ cmd = "mirror"
    /\ \/ lookup' = "ok" /\ pc' = "create_bucket" /\ UNCHANGED <<exit_code, output>>
       \/ lookup' = "failed" /\ error_handle(RemoteError)
    /\ UNCHANGED <<cmd, argv, entryList, dirs, files, queryLog, createLog,
                   writeLog, task, gathered,
                   existing, destBucket, aliases, session>>

\* client.create_bucket(dest_name, settings=src_settings, exist_ok=True)
CreateCall(a) ==
    [name |-> a.dest[1], settings |-> "src_settings", exist_ok |-> TRUE]

\* The remote's create_bucket on a bucket that is absent (None) or there:
\* an absent bucket is created with the settings given; a bucket that is
\* there is left as it is, which is an error unless exist_ok.
CreateBucket(bucket, call) ==
    [ok     |-> bucket = None \/ call.exist_ok,
     bucket |-> IF bucket = None THEN Some(call.settings) ELSE bucket]

mirror_bucket_create ==
    /\ pc = "create_bucket"
    /\ cmd = "mirror"
    /\ createLog' = Append(createLog, CreateCall(argv))
    /\ destBucket' = CreateBucket(destBucket, CreateCall(argv)).bucket
    /\ IF CreateBucket(destBucket, CreateCall(argv)).ok
         THEN pc' = "get_entry_list" /\ UNCHANGED <<exit_code, output>>
         ELSE error_handle(ConflictError)
    /\ UNCHANGED <<cmd, argv, entryList, dirs, files,
                   queryLog, writeLog, task, gathered, lookup,
                   existing, aliases, session>>

\* The names of a list in ascending order.
RECURSIVE SortedNames(_)
SortedNames(S) ==
    IF S = {} THEN <<>>
    ELSE LET least == CHOOSE n \in S : \A m \in S : NameRank(n) <= NameRank(m)
         IN  <<least>> \o SortedNames(S \ {least})

\* The entries mirror makes a pipeline for: all of them, sorted by name.
MirrorEntries(list) == SortedNames({list[k] : k \in DOMAIN list})

mirror_bucket_spawn ==
    /\ pc = "get_entry_list"
    /\ cmd = "mirror"
    /\ task' = [i \in 1..Len(MirrorEntries(entryList)) |->
                  NewTask(MirrorEntries(entryList)[i])]
    /\ pc' = "gather"
    /\ UNCHANGED <<cmd, argv, entryList, exit_code, output, dirs, files,
                   queryLog, createLog, writeLog, gathered, lookup,
                   existing, destBucket, aliases, session>>

\* The query of a mirrored entry: the parsed bounds, None for a bound that
\* was not given.
MirrorQueryCall(entry, kwargs) ==
    [name  |-> entry.name,
     start |-> IF kwargs.start = None THEN None
               ELSE Some(ToTimestamp(kwargs.start[1])),
     stop  |-> IF kwargs.stop = None THEN None
               ELSE Some(ToTimestamp(kwargs.stop[1]))]

mirror_entry_start(i) ==
    /\ pc = "gather"
    /\ cmd = "mirror"
    /\ Startable(i)
    /\ queryLog' = Append(queryLog, MirrorQueryCall(task[i].entry, FolderKwargs(argv)))
    /\ task' = [task EXCEPT ![i].pc = "next"]
    /\ UNCHANGED <<cmd, argv, entryList, pc, exit_code, output, dirs, files,
                   createLog, writeLog, gathered, lookup,
                   existing, destBucket, aliases, session>>

\* Mutant: the declared length is the number of chunks.
WriteCallChunkCount(entry, record) ==
    [name           |-> entry.name,
     data           |-> record.chunks,
     content_length |-> Len(record.chunks),
     timestamp      |-> record.timestamp]

\* dest_bucket.write(entry.name, data=record.read(...),
\*                   content_length=record.size, timestamp=record.timestamp)
WriteCall(entry, record) ==
    [name           |-> entry.name,
     data           |-> record.chunks,
     content_length |-> record.size,
     timestamp      |-> record.timestamp]

\* The next record arrives and its write to the destination is issued, or
\* the stream has ended, or the remote fails.
mirror_entry_next(i) ==
    /\ pc = "gather"
    /\ AllStarted
    /\ cmd = "mirror"
    /\ i \in DOMAIN task
    /\ task[i].pc = "next"
    /\ \/ /\ task[i].rec < Len(SrcRecords(task[i].entry.name))
          /\ task' = [task EXCEPT ![i].pc = "write", ![i].rec = @ + 1]
          /\ writeLog' = [writeLog EXCEPT ![task[i].entry.name] =
                              Append(@, WriteCall(task[i].entry,
                                  SrcRecords(task[i].entry.name)[task[i].rec + 1]))]
          /\ UNCHANGED gathered
       \/ /\ task[i].rec = Len(SrcRecords(task[i].entry.name))
          /\ task' = [task EXCEPT ![i].pc = "done"]
          /\ UNCHANGED <<writeLog, gathered>>
       \/ /\ task[i].rec < Len(SrcRecords(task[i].entry.name))
          /\ Fail(i, EntryError(task[i].entry, RemoteError))
          /\ UNCHANGED writeLog
    /\ UNCHANGED <<cmd, argv, entryList, pc, exit_code, output, dirs, files,
                   queryLog, createLog, lookup,
                   existing, destBucket, aliases, session>>

\* The awaited write returns and the record is accounted, or it raises.
mirror_entry_write(i) ==
    /\ pc = "gather"
    /\ AllStarted
    /\ cmd = "mirror"
    /\ i \in DOMAIN task
    /\ task[i].pc = "write"
    /\ \/ /\ task' = ProgressUpdate(task, i, CurrentRecord(i))
          /\ UNCHANGED gathered
       \/ Fail(i, EntryError(task[i].entry, RemoteError))
    /\ UNCHANGED <<cmd, argv, entryList, pc, exit_code, output, dirs, files,
                   queryLog, createLog, writeLog, lookup,
                   existing, destBucket, aliases, session>>

\* All pipelines are awaited to their end; then the first error, if any, is
\* reported.
mirror_bucket_gather ==
    /\ pc = "gather"
    /\ AllStarted
    /\ cmd = "mirror"
    /\ \A i \in DOMAIN task : task[i].pc \in {"done", "failed"}
    /\ IF gathered # None THEN error_handle(gathered[1]) ELSE Completed
    /\ UNCHANGED <<cmd, argv, entryList, dirs, files, queryLog, createLog,
                   writeLog, task, gathered, lookup,
                   existing, destBucket, aliases, session>>

Next ==
    \/ folder
    \/ export_bucket_lookup
    \/ export_bucket_mkdir
    \/ export_bucket_spawn
    \/ \E i \in 1..MaxEntries : export_entry_start(i)
    \/ \E i \in 1..MaxEntries : export_entry_next(i)
    \/ \E i \in 1..MaxEntries : export_entry_chunk(i)
    \/ export_bucket_gather
    \/ mirror
    \/ mirror_bucket_lookup
    \/ mirror_bucket_create
    \/ mirror_bucket_spawn
    \/ \E i \in 1..MaxEntries : mirror_entry_start(i)
    \/ \E i \in 1..MaxEntries : mirror_entry_next(i)
    \/ \E i \in 1..MaxEntries : mirror_entry_write(i)
    \/ mirror_bucket_gather

Spec == Init /\ [][Next]_vars

\* The event loop runs whatever is ready: run_until_complete() does not
\* return before the command's coroutine has ended, and neither the remote
\* nor the disk of the model stalls.
FairSpec == Spec /\ WF_vars(Next)

\* ---------------------------------------------------------------- alias
\* The transfer commands' part of the state.
transferVars == <<cmd, argv, entryList, pc, exit_code, output, dirs, files,
                  queryLog, createLog, writeLog, task, gathered, lookup,
                  existing, destBucket>>

AlreadyExists(n) == [kind |-> "", msg |-> "Alias '" \o n \o "' already exists"]

DoesntExist(n) == [kind |-> "", msg |-> "Alias '" \o n \o "' doesn't exist"]

\* Mutant: a second add replaces the alias before it is refused.
AddAliasOverwrite(store, n, entry) ==
    [ok    |-> n \notin DOMAIN store,
     store |-> [x \in DOMAIN store \cup {n} |-> IF x = n THEN entry ELSE store[x]]]

\* "alias add": a name that is in the store is refused, a new one is stored
\* with the url and token given.
AddAlias(store, n, entry) ==
    [ok    |-> n \notin DOMAIN store,
     store |-> IF n \in DOMAIN store THEN store
               ELSE [x \in DOMAIN store \cup {n} |->
                       IF x = n THEN entry ELSE store[x]]]

\* Mutant: rm empties the store.
RmAliasAll(store, n) == [ok |-> n \in DOMAIN store, store |-> EmptyStore]

\* "alias rm": a name that is not in the store is refused, one that is is
\* taken out.
RmAlias(store, n) ==
    [ok    |-> n \in DOMAIN store,
     store |-> [x \in DOMAIN store \ {n} |-> store[x]]]

\* What "alias list" prints: the store as a JSON object, name -> {url, token}.
ListOutput(store) ==
    {[name |-> n, url |-> store[n].url, token |-> store[n].token] :
        n \in DOMAIN store}

\* The session after an add or rm command.
Ran(op, n, entry, ok, failure) ==
    [prev |-> session.last,
     last |-> [op |-> op, name |-> n, ok |-> ok, entry |-> entry],
     before2 |-> session.before,
     before |-> aliases,
     listed |-> None,
     out |-> IF ok THEN <<>> ELSE <<failure, Aborted>>,
     exit_code |-> IF ok THEN 0 ELSE 1]

alias_add(n, entry) ==
    /\ cmd = "alias"
    /\ aliases' = AddAlias(aliases, n, entry).store
    /\ session' = Ran("add", n, Some(entry), AddAlias(aliases, n, entry).ok,
                      AlreadyExists(n))
    /\ UNCHANGED transferVars

alias_rm(n) ==
    /\ cmd = "alias"
    /\ aliases' = RmAlias(aliases, n).store
    /\ session' = Ran("rm", n, None, RmAlias(aliases, n).ok, DoesntExist(n))
    /\ UNCHANGED transferVars

alias_list ==
    /\ cmd = "alias"
    /\ session' = [session EXCEPT !.listed = Some(ListOutput(aliases)),
                                  !.out = <<ListOutput(aliases)>>,
                                  !.exit_code = 0]
    /\ UNCHANGED <<aliases, transferVars>>

\* Each test starts on a configuration file of its own that is not there
\* yet; no transfer is run.
AliasInit ==
    /\ cmd = "alias"
    /\ argv = [bucket |-> "", dest |-> None, start |-> None, stop |-> None,
               entries |-> None, ext |-> None]
    /\ entryList = <<>>
    /\ existing = [dirs |-> {}, bucket |-> None, files |-> <<>>]
    /\ destBucket = None
    /\ aliases = EmptyStore
    /\ session = NewSession(EmptyStore)
    /\ pc = "exit"
    /\ exit_code = -1
    /\ output = <<>>
    /\ dirs = {}
    /\ files = <<>>
    /\ queryLog = <<>>
    /\ createLog = <<>>
    /\ writeLog = [n \in EntryNames |-> <<>>]
    /\ task = <<>>
    /\ gathered = None
    /\ lookup = "pending"

AliasNext ==
    \/ \E n \in AliasNames, entry \in AliasEntries : alias_add(n, entry)
    \/ \E n \in AliasNames : alias_rm(n)
    \/ alias_list

AliasSpec == AliasInit /\ [][AliasNext]_vars

\* ================================================================ claims
Range(seq) == {seq[k] : k \in DOMAIN seq}

Settled(i) == task[i].pc \in {"done", "failed"}

\* The file f is as it was before the command: not there, or there with the
\* bytes it held.
NotWritten(f) ==
    IF f \in DOMAIN existing.files
    THEN f \in DOMAIN files /\ files[f] = existing.files[f]
    ELSE f \notin DOMAIN files

\* The names bucket.query was called for.
Queried == {queryLog[k].name : k \in DOMAIN queryLog}

\* C1: when a pipeline of a bucket transfer fails (here: on an error of the
\* remote), the command reports the error and exits with a non-zero code
\* only after every pipeline has settled (run to its end or failed itself);
\* no sibling is left unfinished.
C1_ErrorOnlyAfterAllSettled ==
    (pc = "exit" /\ exit_code # 0 /\ gathered # None
        /\ gathered[1].kind = RemoteError.kind)
        => \A i \in DOMAIN task : Settled(i)

\* C2: if the lookup of the source bucket fails, no destination directory
\* or bucket is created, no entry is queried, and the command exits with
\* code 1 after printing "[RuntimeError] Oops" and "Aborted!".
C2_LookupFailureTouchesNothing ==
    lookup = "failed"
        => /\ dirs = existing.dirs
           /\ destBucket = existing.bucket
           /\ files = existing.files
           /\ createLog = <<>>
           /\ queryLog = <<>>
           /\ task = <<>>
           /\ exit_code = 1
           /\ output = <<[kind |-> "RuntimeError", msg |-> "Oops"],
                         [kind |-> "", msg |-> "Aborted!"]>>

C2_Witness == lookup = "failed" /\ cmd = "export" /\ pc = "exit"

\* C3: when a ParseError of a malformed --start/--stop is reported, no
\* pipeline has been launched, no destination directory or bucket has been
\* created and no entry has been queried.
C3_ParseErrorBeforeAnyEffect ==
    (output # <<>> /\ output[1] = ParseError)
        => /\ task = <<>>
           /\ dirs = existing.dirs
           /\ createLog = <<>>
           /\ queryLog = <<>>

\* C4: with an explicit --entries subset and no failure of the remote, the
\* entries queried by the export are exactly the entries of the bucket that
\* were requested (names that do not exist are skipped without error).
C4_QueriedIsRequestedSubset ==
    (cmd = "export" /\ pc = "exit" /\ argv.entries # None
       /\ Given(argv) \subseteq {"path", "dest", "entries"}
       /\ lookup # "failed" /\ gathered = None)
        => Queried = Range(entryList) \cap Range(argv.entries[1])

\* C5: the queries of an export are issued in ascending order of entry name,
\* whatever the order of the entry list.
C5_QueriesInNameOrder ==
    cmd = "export"
        => \A a, b \in DOMAIN queryLog :
              a < b => NameRank(queryLog[a].name) < NameRank(queryLog[b].name)

\* C6: every query of an export gets its bounds per entry: without --start
\* the entry's own oldest record, without --stop the entry's own latest
\* record, and a bound of the command line the same for every entry; so two
\* entries get different bounds when none is given.
C6_BoundsResolvedPerEntry ==
    cmd = "export"
        => /\ \A k \in DOMAIN queryLog :
                 LET q    == queryLog[k]
                     recs == SrcRecords(q.name)
                 IN  /\ argv.start = None => q.start = Some(recs[1].timestamp)
                     /\ argv.stop = None => q.stop = Some(recs[Len(recs)].timestamp)
                     /\ argv.start # None => q.start = Some(ToTimestamp(argv.start[1]))
                     /\ argv.stop # None => q.stop = Some(ToTimestamp(argv.stop[1]))
           /\ \A a, b \in DOMAIN queryLog :
                 LET same(x, y) == queryLog[a][x] = queryLog[b][y]
                 IN  /\ argv.start # None => same("start", "start")
                     /\ argv.stop # None => same("stop", "stop")
                     /\ argv.start = None /\ a # b => ~same("start", "start")
                     /\ argv.stop = None /\ a # b => ~same("stop", "stop")

C6_Witness ==
    /\ cmd = "export"
    /\ Len(queryLog) = 2
    /\ argv.start = None
    /\ argv.stop # None
    /\ queryLog[1].start # queryLog[2].start
    /\ queryLog[1].stop = queryLog[2].stop

\* C7: a bound of the command line reaches the query as UTC microseconds
\* since the epoch: the value of the same wall clock read as "Z", less the
\* offset; 2022-01-02T00:00:01.100300 is 1641074401100300 with +02:00 and
\* 1641081601100300 with Z.
C7_OffsetNormalisedToUtc ==
    \A k \in DOMAIN queryLog :
        /\ argv.start # None =>
              LET iso == argv.start[1]
                  z   == ToTimestamp([iso EXCEPT !.off = 0])
                  got == IF queryLog[k].start = None THEN Ts(-1, -1)
                         ELSE queryLog[k].start[1]
              IN  /\ got.sec = z.sec - 60 * iso.off
                  /\ got.usec = z.usec
                  /\ iso = Iso(2022, 1, 2, 0, 0, 1, 100300, 120)
                        => got = Ts(1641074401, 100300)
                  /\ iso = Iso(2022, 1, 2, 0, 0, 1, 100300, 0)
                        => got = Ts(1641081601, 100300)
        /\ argv.stop # None =>
              LET iso == argv.stop[1]
                  z   == ToTimestamp([iso EXCEPT !.off = 0])
                  got == IF queryLog[k].stop = None THEN Ts(-1, -1)
                         ELSE queryLog[k].stop[1]
              IN  /\ got.sec = z.sec - 60 * iso.off
                  /\ got.usec = z.usec
                  /\ iso = Iso(2022, 2, 1, 0, 0, 0, 0, 120)
                        => got = Ts(1643666400, 0)

C7_Witness ==
    /\ cmd = "export"
    /\ queryLog # <<>>
    /\ argv.start = Some(Iso(2022, 1, 2, 0, 0, 1, 100300, 120))
    /\ argv.stop # None
    /\ queryLog[1].start = Some(Ts(1641074401, 100300))
    /\ queryLog[1].stop = Some(Ts(1643666400, 0))

\* C8: an export to a destination directory given on the command line, on
\* which nothing fails, ends with exactly one file
\* <dest-dir>/<bucket>/<entry>/<timestamp>.<ext> for every record of every
\* entry, holding the record's chunks in the order read.
C8_OneFilePerRecordUnderDest ==
    (cmd = "export" /\ pc = "exit" /\ argv.dest # None
       /\ Given(argv) \subseteq {"path", "dest", "start", "stop"}
       /\ ~BadBound(FolderKwargs(argv))
       /\ lookup # "failed" /\ gathered = None)
        => \A n \in Range(entryList) : \A j \in DOMAIN SrcRecords(n) :
              LET r  == SrcRecords(n)[j]
                  at == {f \in DOMAIN files :
                           /\ f.dir = <<argv.dest[1], argv.bucket, n>>
                           /\ f.timestamp = r.timestamp}
              IN  /\ Cardinality(at) = 1
                  /\ \A f \in at : files[f] = Flatten(r.chunks)

\* The extension the priority rule gives.
ExpectedExt(ext, content_type) ==
    IF ext # None THEN ext[1]
    ELSE IF content_type = "image/png" THEN "png"
    ELSE "bin"

\* C9: the extension of the file of an exported record is the --ext value
\* if one is given, else the extension of the record's content type (png for
\* image/png), else bin for a record without a content type.
C9_ExtensionByPriority ==
    \A f \in DOMAIN files : \A n \in EntryNames : \A j \in DOMAIN SrcRecords(n) :
        (~NotWritten(f)
           /\ f.dir[Len(f.dir)] = n /\ f.timestamp = SrcRecords(n)[j].timestamp)
            => f.ext = ExpectedExt(argv.ext, SrcRecords(n)[j].content_type)

\* The writes issued for the entry named n, in order.
WritesOf(n) == writeLog[n]

\* C10: mirror issues one write per record the query has yielded, under the
\* entry's name, with the record's timestamp, its size as content length and
\* its chunks as data, in the order yielded and one at a time.
C10_OneWritePerRecord ==
    cmd = "mirror"
        => /\ \A i \in DOMAIN task :
                 LET n == task[i].entry.name
                 IN  /\ Len(WritesOf(n)) = task[i].rec
                     /\ task[i].records_copied \in {task[i].rec - 1, task[i].rec}
                     /\ \A j \in DOMAIN WritesOf(n) :
                           LET w == WritesOf(n)[j]
                               r == SrcRecords(n)[j]
                           IN  /\ w.name = n
                               /\ w.timestamp = r.timestamp
                               /\ w.content_length = r.size
                               /\ w.content_length = Len(Flatten(w.data))
                               /\ w.data = r.chunks
           /\ \A n \in EntryNames :
                 WritesOf(n) # <<>> => \E i \in DOMAIN task : task[i].entry.name = n

C10_Witness ==
    /\ cmd = "mirror"
    /\ pc = "exit"
    /\ exit_code = 0
    /\ \E n, m \in EntryNames :
          n # m /\ Len(WritesOf(n)) >= 2 /\ Len(WritesOf(m)) >= 1

\* Sum of the declared sizes of the first k records of the entry named n.
RECURSIVE SizeOfFirst(_, _)
SizeOfFirst(n, k) ==
    IF k = 0 THEN 0 ELSE SizeOfFirst(n, k - 1) + SrcRecords(n)[k].size

C12_EnsureDestinationIdempotent ==
    /\ (cmd = "mirror" /\ lookup = "ok" /\ pc # "create_bucket")
          => /\ createLog = <<[name |-> argv.dest[1], settings |-> "src_settings",
                                exist_ok |-> TRUE]>>
             /\ destBucket = IF existing.bucket = None THEN Some("src_settings")
                             ELSE existing.bucket
             /\ pc = "exit" /\ exit_code = 1 => gathered # None
    /\ (cmd = "export" /\ lookup = "ok" /\ pc # "mkdir")
          => /\ <<argv.bucket>> \in dirs
             /\ existing.dirs \subseteq dirs
             /\ \A i \in DOMAIN task :
                   task[i].pc # "new" => <<argv.bucket, task[i].entry.name>> \in dirs
             /\ \A i \in DOMAIN task : task[i].error # Some(FileExistsError)
             /\ pc = "exit" /\ exit_code = 1
                   => gathered # None /\ gathered # Some(FileExistsError)

C12_Witness ==
    /\ cmd = "export"
    /\ existing.dirs = {<<"src_bucket">>, <<"src_bucket", "entry-1">>}
    /\ Len(task) = 2
    /\ pc = "exit"
    /\ exit_code = 0

\* The command line was rejected by click: no transfer was begun.
UsageRejected == output = <<UsageError>>

\* An error was raised in the command's body and not handled there.
UnrecoveredError ==
    \/ lookup = "failed"
    \/ gathered # None
    \/ cmd = "mirror" /\ BadBound(FolderKwargs(argv))

\* C13: a bucket transfer terminates (the record streams of the model are
\* finite).  It ends with exit code 0 when all pipelines ran to their end
\* and nothing failed, and with exit code 1 exactly when an error was not
\* recovered; no other exit code is produced by a transfer, and the command
\* never stays in a state where no pipeline can move.
C13_TransferTerminates ==
    /\ <>(pc = "exit")
    /\ [](pc # "exit" => ENABLED Next)
    /\ []((pc = "exit" /\ ~UsageRejected)
            => /\ exit_code \in {0, 1}
               /\ exit_code = 1 <=> UnrecoveredError
               /\ exit_code = 0 => \A i \in DOMAIN task : task[i].pc = "done"
               /\ exit_code = 1 => output[Len(output)] = Aborted)

C13_Witness ==
    /\ pc = "exit"
    /\ exit_code = 0
    /\ Len(task) = 2
    /\ \A i \in DOMAIN task : task[i].pc = "done"

\* C14: an "alias add" of a name that is in the store and an "alias rm" of a
\* name that is not end with exit code 1 and print the message of the case
\* for that name, then "Aborted!"; the store is as it was before the
\* command.  A command that is not one of these cases succeeds.  (The exit
\* code and the output are those of the last command: they are compared
\* until an "alias list" is run.)
C14_InvalidAliasCommandRejected ==
    LET l == session.last
    IN  /\ (l.op = "add" /\ l.name \in DOMAIN session.before)
             => /\ ~l.ok
                /\ aliases = session.before
                /\ session.listed = None
                     => /\ session.exit_code = 1
                        /\ session.out = <<[kind |-> "", msg |-> "Alias '"
                                     \o l.name \o "' already exists"],
                                   [kind |-> "", msg |-> "Aborted!"]>>
        /\ (l.op = "rm" /\ l.name \notin DOMAIN session.before)
             => /\ ~l.ok
                /\ aliases = session.before
                /\ session.listed = None
                     => /\ session.exit_code = 1
                        /\ session.out = <<[kind |-> "", msg |-> "Alias '"
                                     \o l.name \o "' doesn't exist"],
                                   [kind |-> "", msg |-> "Aborted!"]>>
        /\ (l.op = "add" /\ l.name \notin DOMAIN session.before) => l.ok
        /\ (l.op = "rm" /\ l.name \in DOMAIN session.before) => l.ok
        /\ (l.op # "none" /\ l.ok /\ session.listed = None)
             => session.exit_code = 0

\* A refused add on a store that holds the name with another url.
C14_Witness ==
    /\ session.last.op = "add"
    /\ ~session.last.ok
    /\ session.last.entry # Some(session.before[session.last.name])
    /\ session.prev.op = "rm"
    /\ ~session.prev.ok

\* C15: an add of a name that is not in the store puts it there with the
\* url and token given, the rest of the store as it was, and "alias list"
\* shows it; an rm of the same name right after it leaves the store, and
\* what "alias list" prints, exactly as it was before the add ("{}", the
\* empty object, from an empty store).
C15_AddRmRoundTrip ==
    LET l == session.last
        p == session.prev
    IN  /\ (l.op = "add" /\ l.ok)
             => /\ l.name \in DOMAIN aliases
                /\ aliases[l.name] = l.entry[1]
                /\ \A x \in DOMAIN session.before : aliases[x] = session.before[x]
                /\ DOMAIN aliases = DOMAIN session.before \cup {l.name}
                /\ session.listed # None
                     => [name |-> l.name, url |-> l.entry[1].url,
                         token |-> l.entry[1].token] \in session.listed[1]
        /\ (p.op = "add" /\ p.ok /\ l.op = "rm" /\ l.ok /\ l.name = p.name)
             => /\ aliases = session.before2
                /\ session.listed # None
                     => /\ session.listed[1] = ListOutput(session.before2)
                        /\ session.before2 = EmptyStore => session.listed[1] = {}

\* The round trip on a store that holds another alias, listed afterwards.
C15_Witness ==
    /\ session.prev.op = "add" /\ session.prev.ok
    /\ session.last.op = "rm" /\ session.last.ok
    /\ session.last.name = session.prev.name
    /\ session.before2 # EmptyStore
    /\ session.listed # None

\* The pipeline of task i failed on a record: the remote raised while the
\* next record was fetched or while its bytes were moved.
FailedOnRecord(i) ==
    /\ task[i].pc = "failed"
    /\ task[i].error[1].kind = RemoteError.kind

\* Nothing of a record after the one the pipeline failed on is in the sink.
NoRecordAfterFailure(i) ==
    LET t == task[i]
        n == t.entry.name
    IN  /\ \A j \in (t.rec + 1)..Len(SrcRecords(n)) :
              NotWritten(RecordFile(argv, t.entry, SrcRecords(n)[j]))
        /\ Len(writeLog[n]) <= t.rec
        /\ t.accepted <= t.rec

\* The error the pipeline raised, and the line printed for it when it is
\* the one the command reports, carry the name of the entry.
SurfacedNamesEntry(i) ==
    LET e == task[i].error[1]
    IN  /\ "entry" \in DOMAIN e
        /\ e.entry = task[i].entry.name
        /\ (pc = "exit" /\ gathered = task[i].error) => output[1] = e

\* C16: when a pipeline fails on a record, no later record of its entry
\* reaches the sink (no further file, no further write call), and the error
\* it surfaces names the entry.
C16_FailureAbortsEntryAndNamesIt ==
    \A i \in DOMAIN task :
        FailedOnRecord(i) => NoRecordAfterFailure(i) /\ SurfacedNamesEntry(i)

\* The first half of C16 alone.
C16_NoLaterRecord ==
    \A i \in DOMAIN task : FailedOnRecord(i) => NoRecordAfterFailure(i)

\* The first k chunks of a record, as the bytes of a file.
FirstChunks(record, k) == Flatten(SubSeq(record.chunks, 1, k))

\* The sink of the pipeline of task i holds the records of the entry in the
\* order of the source, up to the record the pipeline is at: the records
\* before it whole, of the current one the chunks read so far, of the later
\* ones nothing.
SinkInSourceOrder(i) ==
    LET t    == task[i]
        n    == t.entry.name
        recs == SrcRecords(n)
        file(j) == RecordFile(argv, t.entry, recs[j])
    IN  /\ cmd = "export"
          => /\ \A j \in 1..(t.rec - 1) : /\ file(j) \in DOMAIN files
                                          /\ files[file(j)] = Flatten(recs[j].chunks)
             /\ t.rec >= 1 => /\ file(t.rec) \in DOMAIN files
                              /\ files[file(t.rec)] = FirstChunks(recs[t.rec], t.chunk)
             /\ \A j \in (t.rec + 1)..Len(recs) : NotWritten(file(j))
        /\ cmd = "mirror"
          => /\ Len(writeLog[n]) = t.rec
             /\ \A j \in 1..t.rec : writeLog[n][j] = WriteCall(t.entry, recs[j])
        /\ t.pc \in {"next", "done"} => t.accepted = t.rec
        /\ t.pc \in {"read", "write"} => t.accepted = t.rec - 1

\* What the destination holds after a transfer that succeeded, whatever the
\* order the pipelines' steps were taken in.
FinalContent ==
    /\ cmd = "export"
          => /\ DOMAIN files =
                   {RecordFile(argv, EntryInfo(entryList[k]),
                               SrcRecords(entryList[k])[j]) :
                      <<k, j>> \in {x \in (DOMAIN entryList) \X (1..MaxRecords) :
                                       x[2] <= Len(SrcRecords(entryList[x[1]]))}}
                   \cup DOMAIN existing.files
             /\ \A f \in DOMAIN existing.files :
                   f.dir[Len(f.dir)] \notin Range(entryList) => NotWritten(f)
             /\ \A k \in DOMAIN entryList :
                   \A j \in DOMAIN SrcRecords(entryList[k]) :
                      files[RecordFile(argv, EntryInfo(entryList[k]),
                                       SrcRecords(entryList[k])[j])]
                         = Flatten(SrcRecords(entryList[k])[j].chunks)
    /\ cmd = "mirror"
          => \A n \in EntryNames :
                writeLog[n] =
                   IF n \in Range(entryList)
                   THEN [j \in DOMAIN SrcRecords(n) |->
                            WriteCall(EntryInfo(n), SrcRecords(n)[j])]
                   ELSE <<>>

\* C17: within an entry the records reach the sink in the order of the
\* source, and a record is not begun before the one before it is written
\* whole; the steps of different entries interleave in any order, and every
\* order leaves the same content in the destination.
C17_OrderedWithinEntry ==
    /\ \A i \in DOMAIN task : SinkInSourceOrder(i)
    /\ (pc = "exit" /\ exit_code = 0) => FinalContent

\* Two pipelines are in the middle of a record each, one in its second.
C17_Witness ==
    /\ cmd = "export"
    /\ Len(task) = 2
    /\ \E a, b \in DOMAIN task :
          /\ a # b
          /\ task[a].pc = "read" /\ task[a].rec = 2 /\ task[a].chunk = 1
          /\ task[b].pc = "read" /\ task[b].chunk = 1

\* A step of the pipeline of task i.
PipelineStep(i) ==
    \/ export_entry_start(i)
    \/ export_entry_next(i)
    \/ export_entry_chunk(i)
    \/ mirror_entry_start(i)
    \/ mirror_entry_next(i)
    \/ mirror_entry_write(i)

\* The counters the progress shows for the entry of a pipeline.
Counters(t) == <<t.records_copied, t.bytes_copied>>

\* C18: a step of the pipeline of one entry leaves the counters of every
\* other entry as they were, and with them all that belongs to the other
\* pipelines (their position, their files, their write calls); counters
\* change in no step but one of the pipeline that owns them.
C18_CountersChangedByOwnerOnly ==
    [][/\ \A i \in 1..MaxEntries :
            PipelineStep(i)
              => \A b \in DOMAIN task \ {i} :
                    /\ Counters(task'[b]) = Counters(task[b])
                    /\ task'[b] = task[b]
                    /\ writeLog'[task[b].entry.name] = writeLog[task[b].entry.name]
                    /\ \A f \in DOMAIN files :
                          f.dir = EntryPath(argv, task[b].entry)
                            => f \in DOMAIN files' /\ files'[f] = files[f]
       /\ \A b \in DOMAIN task \cap DOMAIN task' :
            Counters(task'[b]) # Counters(task[b]) => PipelineStep(b)]_vars

\* One pipeline has been accounted a record while another is in the middle
\* of one.
C18_Witness ==
    \E a, b \in DOMAIN task :
        /\ a # b
        /\ task[a].records_copied = 1
        /\ task[b].records_copied = 0
        /\ task[b].pc \in {"read", "write"}
        /\ pc = "gather"

\* The files the pipeline of task i has opened so far.
Written(i) ==
    {RecordFile(argv, task[i].entry, SrcRecords(task[i].entry.name)[j]) :
        j \in 1..task[i].rec}

\* C19: the export pipelines never write the same file.  Every file a
\* pipeline has opened lies in the directory <bucket>/<entry.name> of its
\* entry, so the files of two pipelines lie in different directories and
\* are different files; every file there is was opened by one pipeline, for
\* one record, and holds bytes of that record only (a run of its first
\* chunks).
C19_PipelinesWriteDisjointFiles ==
    cmd = "export"
      => /\ \A i \in DOMAIN task :
               \A f \in Written(i) :
                  /\ f \in DOMAIN files
                  /\ f.dir = <<argv.bucket, task[i].entry.name>>
         /\ \A a, b \in DOMAIN task :
               a # b => /\ task[a].entry.name # task[b].entry.name
                        /\ Written(a) \cap Written(b) = {}
                        /\ {f.dir : f \in Written(a)} \cap {f.dir : f \in Written(b)} = {}
         /\ \A f \in DOMAIN files :
               \/ NotWritten(f) /\ \A i \in DOMAIN task : f \notin Written(i)
               \/ /\ Cardinality({i \in DOMAIN task : f \in Written(i)}) = 1
                  /\ \E i \in DOMAIN task :
                        \E j \in 1..task[i].rec :
                           LET record == SrcRecords(task[i].entry.name)[j]
                           IN  /\ f = RecordFile(argv, task[i].entry, record)
                               /\ \E k \in 0..Len(record.chunks) :
                                     files[f] = FirstChunks(record, k)

\* Two pipelines have each written the first chunk of a file of their own.
C19_Witness ==
    /\ cmd = "export"
    /\ pc = "gather"
    /\ Cardinality(DOMAIN files) >= 2
    /\ \E a, b \in DOMAIN task :
          /\ a # b
          /\ task[a].pc = "read" /\ task[a].chunk = 1
          /\ task[b].pc = "read" /\ task[b].chunk = 1

\* The read of the current record of task i failed after k = chunk of its
\* chunks had been read.
ReadFailure(i) ==
    /\ task[i].pc = "failed"
    /\ task[i].rec >= 1
    /\ task[i].chunk < Len(CurrentRecord(i).chunks)

\* C20: in export the file of a record is there, and empty whatever it held
\* before, when the first chunk of the record is about to be read; if the
\* read of the record's bytes fails after k chunks the file stays, with
\* exactly the k chunks read, and the files of the entry's earlier records
\* hold their records whole, as when they were closed.
C20_PartialFileKeptOnFailure ==
    cmd = "export"
      => \A i \in DOMAIN task :
            LET t    == task[i]
                recs == SrcRecords(t.entry.name)
                file(j) == RecordFile(argv, t.entry, recs[j])
            IN  /\ (t.pc = "read" /\ t.chunk = 0)
                      => file(t.rec) \in DOMAIN files /\ files[file(t.rec)] = <<>>
                /\ ReadFailure(i)
                      => /\ file(t.rec) \in DOMAIN files
                         /\ files[file(t.rec)] = FirstChunks(recs[t.rec], t.chunk)
                         /\ Len(files[file(t.rec)]) < recs[t.rec].size
                         /\ \A j \in 1..(t.rec - 1) :
                               /\ file(j) \in DOMAIN files
                               /\ files[file(j)] = Flatten(recs[j].chunks)

\* The command has ended on a read that failed after one chunk of the first
\* record of entry-1, whose file an earlier export had left with other bytes.
C20_Witness ==
    /\ cmd = "export"
    /\ pc = "exit"
    /\ exit_code = 1
    /\ existing.files # <<>>
    /\ \E i \in DOMAIN task :
          /\ ReadFailure(i)
          /\ task[i].entry.name = "entry-1"
          /\ task[i].rec = 1
          /\ task[i].chunk = 1
====
